---------------------------- MODULE Spec2Model ----------------------------
(***************************************************************************)
(* A model of the audio-fingerprinting code of shazir:                     *)
(*                                                                         *)
(*   src/shazam_ir/helpers.py    make_combinatorial_hashes and its inner   *)
(*                               pairs_from_anchor_point                   *)
(*   src/shazir/fingerprinting.py  make_fingerprint and                    *)
(*                               fingerprint_track_and_add_to_database     *)
(*                                                                         *)
(* Times are float64 seconds in the code (librosa.frames_to_time,          *)
(* helpers.py:31-32).  A time is held here as ONE integer n that stands    *)
(* for an exact real number:                                               *)
(*                                                                         *)
(*     n = k * F64Scale + e     stands for     k/10 + e * 2^-56 / 10       *)
(*                                                                         *)
(* with k the nearest number of tenths of a second and e a small error     *)
(* term (|e| far below F64Scale).  So 1 s is 100000, the real number 0.1   *)
(* is 10000, and the float64 nearest to 0.1, which is 0.1 + 4 * 2^-56/10,  *)
(* is 10004.  Integer +, - and < on these numbers are the exact sum,       *)
(* difference and order of the reals they stand for.  F64Round rounds such *)
(* a real to the nearest float64, ties to even, as IEEE 754 does, and      *)
(* F64Add and F64Sub are the + and - of the code.                          *)
(*                                                                         *)
(* Frequencies are float64 too: the bins of librosa.fft_frequencies        *)
(* (helpers.py:33) are the multiples of sr/n_fft, with n_fft a power of    *)
(* two, and the frequency offsets are integers; float64 + on such values   *)
(* is exact, and frequencies are held as plain integers.                   *)
(***************************************************************************)
EXTENDS Integers, Sequences, FiniteSets

VARIABLES
    \* ---- arguments of make_combinatorial_hashes (helpers.py:67-68)
    peaks_times,        \* sequence of landmark times
    peaks_frequencies,  \* sequence of landmark frequencies, same length
    offset_time,
    offset_freq,
    delta_time,
    delta_freq,
    \* the fan_out of the caller's target-zone configuration: the
    \* parameter of make_fingerprint (fingerprinting.py:5).  The signature
    \* of make_combinatorial_hashes has no parameter that receives it.
    fan_out_arg,
    \* ---- locals of make_combinatorial_hashes
    hash_list,          \* helpers.py:103, the list being built
    anchor,             \* position of the loop of helpers.py:105 (1-based)
    pc,                 \* "idle" | "loop" | "returned" | "raised"
    error,              \* the exception raised, "" when none
    \* ---- history variable (not program state): for each entry of
    \* hash_list, the index of the anchor whose scan appended it
    emitted_by,
    \* ---- fingerprint_track_and_add_to_database (fingerprinting.py:37-46)
    fingerprints_db,    \* argument: dict hash -> dict track_id -> payload
    track_id,           \* argument of the last call
    n_calls,            \* number of calls made so far
    \* ---- history variables (not program state)
    \* the database as the caller held it before the first call
    initial_db,
    \* for every call so far, in order, the <<track_id, hash, time>>
    \* entries of the track that was to be ingested (see TrackEntries)
    ingested

vars == <<peaks_times, peaks_frequencies, offset_time, offset_freq,
          delta_time, delta_freq, fan_out_arg, hash_list, anchor, pc,
          error, emitted_by, fingerprints_db, track_id, n_calls,
          initial_db, ingested>>

hashVars == <<peaks_times, peaks_frequencies, offset_time, offset_freq,
              delta_time, delta_freq, fan_out_arg, hash_list, anchor, pc,
              error, emitted_by>>

indexVars == <<fingerprints_db, track_id, n_calls, initial_db, ingested>>

----------------------------------------------------------------------------
(* Bounds of the model *)

\* landmark coordinates of the short constellations are in 0..MaxCoord
\* (whole seconds, and frequencies)
MaxCoord == 2
\* the short constellations have at most MaxPeaks landmarks
MaxPeaks == 2
\* the dense constellations have at most MaxDense landmarks
MaxDense == 16
\* a dense constellation is a row-major prefix of a grid DenseWidth wide
DenseWidth == 4
\* constant time shifts are of -MaxShift..MaxShift seconds
MaxShift == 1
\* at most MaxCalls calls of fingerprint_track_and_add_to_database
MaxCalls == 2
\* the constellation of a track to ingest has at most MaxTrackPeaks landmarks
MaxTrackPeaks == 8

----------------------------------------------------------------------------
(* float64 arithmetic on times *)

F64Scale == 10 ^ 4

\* the real number k/10, and the real number m (seconds)
Tenths(k) == k * F64Scale
Seconds(m) == Tenths(10 * m)

\* 2^n modulo m
RECURSIVE Pow2Mod(_, _)
Pow2Mod(n, m) == IF n = 0 THEN 1 % m ELSE (2 * Pow2Mod(n - 1, m)) % m

\* 2^n modulo 10 and modulo 20, tabulated
Pow2Mod10 == [n \in 0..60 |-> Pow2Mod(n, 10)]
Pow2Mod20 == [n \in 0..60 |-> Pow2Mod(n, 20)]

\* the binary exponent b of a real n >= 1/16: 2^b <= n < 2^(b+1)
F64Exponent(n) ==
    CHOOSE b \in (-4)..7 :
        /\ 16 * n >= 2 ^ (b + 4) * Tenths(10)
        /\ b < 7 => 16 * n < 2 ^ (b + 5) * Tenths(10)

\* the float64 nearest to the real n > 0, ties to the even significand.
\* The float64 of exponent b are the multiples of 2^(b-52), which is
\* ulp = 10 * 2^(b+4) units of 2^-56/10; r is the excess of n over the
\* multiple below it.  A real below 1/16 only arises as the difference of
\* two float64 within a factor of two of each other, which is exact.
F64RoundPos(n) ==
    LET k == (n + F64Scale \div 2) \div F64Scale
        e == n - k * F64Scale
    IN  IF k = 0 THEN n
        ELSE LET b == F64Exponent(n)
                 g == 2 ^ (b + 4)
                 ulp == 10 * g
                 r == (g * ((k * Pow2Mod10[52 - b]) % 10) + e) % ulp
                 below == (k * Pow2Mod20[52 - b] + (e - r) \div g) % 20
             IN  IF 2 * r < ulp THEN n - r
                 ELSE IF 2 * r > ulp THEN n + ulp - r
                 ELSE IF below = 0 THEN n - r
                 ELSE n + ulp - r

F64Round(n) == IF n < 0 THEN -F64RoundPos(-n) ELSE F64RoundPos(n)

\* x + y and x - y on float64
F64Add(x, y) == F64Round(x + y)
F64Sub(x, y) == F64Round(x - y)

\* the float64 that the literal k/10 denotes
Tenth(k) == F64Round(Tenths(k))

----------------------------------------------------------------------------
(* Sample values of the inputs *)

\* frequency offsets and extents
Offsets == {-1, 0}
Deltas == {0, 2, 6}
\* time offsets and extents, in seconds
TimeOffsets == {Seconds(-1), Seconds(0)}
TimeDeltas == {Seconds(0), Seconds(2), Seconds(6)}
\* the caller's fan_out: an invalid value and a valid one (fingerprinting.py:5)
FanOutArgs == {-1, 1}
Tracks == {"A", "B"}
\* hash keys and a stored time of the databases handed to the first call
Hashes == {<<0, 1000, Seconds(2)>>, <<0, 1000, Seconds(3)>>}
Payloads == {Seconds(2)}

(* The defaults of make_fingerprint, fingerprinting.py:4-5: the target     *)
(* zone fingerprint_track_and_add_to_database fingerprints a track with    *)
(* (times in seconds)                                                      *)

DefaultOffsetTime == 1
DefaultOffsetFreq == 500
DefaultDeltaTime == 10
DefaultDeltaFreq == 1000
DefaultFanOut == 10

----------------------------------------------------------------------------
(* make_combinatorial_hashes, helpers.py:67-108 *)

\* helpers.py:104
fan_out == 10

\* mutant: the lower time bound taken inclusive
InTimeZoneInclusive(t, start_time, dt) ==
    t >= start_time /\ t < F64Add(start_time, dt)

\* helpers.py:92
InTimeZone(t, start_time, dt) ==
    t > start_time /\ t < F64Add(start_time, dt)

\* helpers.py:94
InFreqZone(f, start_freq, df) ==
    f > start_freq /\ f < start_freq + df

\* helpers.py:96-97: [t[0], anchor_freq[0], f[0], t[0] - anchor_time[0]]
\* where t and f are the time and frequency of the target landmark; the
\* difference is the float64 one, stored as it is
HashEntry(t, anchor_time, anchor_freq, f) ==
    <<t, anchor_freq, f, F64Sub(t, anchor_time)>>

\* mutant: off-by-one cap
UnderCapOffByOne(nPairs) ==
    nPairs <= fan_out

\* helpers.py:95
UnderCap(nPairs) ==
    nPairs < fan_out

\* helpers.py:85-101.  scan[i] is the state of the loop of line 91 after
\* its first i iterations: the pairs appended by this anchor, their number,
\* and whether the break of line 100 was taken.
pairs_from_anchor_point(pt, pf, anchor_time, anchor_freq, ot, of, dt, df) ==
    LET start_time == F64Add(anchor_time, ot)
        start_freq == anchor_freq + of
        scan[i \in 0..Len(pt)] ==
            IF i = 0
            THEN [nPairs |-> 0, out |-> <<>>, stop |-> FALSE]
            ELSE LET p == scan[i - 1]
                     t == pt[i]
                     f == pf[i]
                 IN  IF p.stop THEN p
                     ELSE IF InTimeZone(t, start_time, dt)
                             /\ InFreqZone(f, start_freq, df)
                          THEN IF UnderCap(p.nPairs)
                               THEN [nPairs |-> p.nPairs + 1,
                                     out |-> Append(p.out,
                                         HashEntry(t, anchor_time,
                                                   anchor_freq, f)),
                                     stop |-> FALSE]
                               ELSE [p EXCEPT !.stop = TRUE]
                          ELSE p
    IN  scan[Len(pt)].out

\* helpers.py:103-108, the whole function: the pairs of every anchor, in
\* the order of zip(peaks_times, peaks_frequencies)
make_combinatorial_hashes(pt, pf, ot, of, dt, df) ==
    LET upto[a \in 0..Len(pt)] ==
            IF a = 0 THEN <<>>
            ELSE upto[a - 1] \o
                 pairs_from_anchor_point(pt, pf, pt[a], pf[a], ot, of, dt, df)
    IN  upto[Len(pt)]

\* the number of parameters of make_combinatorial_hashes, helpers.py:67-68
\* (none has a default)
NumParameters == 6

\* fingerprinting.py:30-34, after lines 24-28 have produced the
\* constellation pt, pf.  The call of line 30 passes seven positional
\* arguments; Python binds them to the parameters before the body runs
\* and raises TypeError when their numbers differ.  Otherwise the result
\* is the list make_combinatorial_hashes returns.
make_fingerprint(pt, pf, ot, of, dt, df, fo) ==
    LET args == <<pt, pf, ot, of, dt, df, fo>>
    IN  IF Len(args) = NumParameters
        THEN [raised |-> "", type |-> "list",
              value |-> make_combinatorial_hashes(args[1], args[2], args[3],
                            args[4], args[5], args[6])]
        ELSE [raised |-> "TypeError", type |-> "none", value |-> <<>>]

----------------------------------------------------------------------------
(* Inputs of the hash generator *)

\* landmark times: whole seconds, and a time of the 0.1 s grid that is
\* not a float64 exactly
TimeCoords == {Seconds(k) : k \in 0..MaxCoord} \cup {Tenth(1)}

Points == TimeCoords \X (0..MaxCoord)

\* peak_local_max (helpers.py:57) returns distinct grid positions, in an
\* order that is not the order of time: the short constellations are all
\* the sequences of distinct points
ShortConstellations ==
    {s \in UNION {[1..n -> Points] : n \in 0..MaxPeaks} :
        \A i, j \in DOMAIN s : i # j => s[i] # s[j]}

\* the first n points of a grid, row by row
DenseConstellation(n) ==
    [i \in 1..n |-> <<Seconds((i - 1) % DenseWidth),
                      (i - 1) \div DenseWidth>>]

Constellations ==
    ShortConstellations \cup {DenseConstellation(n) : n \in 0..MaxDense}

TimesOf(c) == [i \in DOMAIN c |-> c[i][1]]
FreqsOf(c) == [i \in DOMAIN c |-> c[i][2]]

----------------------------------------------------------------------------
(* The state after construction: nothing called, an empty database *)

EmptyDict == [h \in {} |-> <<>>]

Init ==
    /\ peaks_times = <<>>
    /\ peaks_frequencies = <<>>
    /\ offset_time = 0
    /\ offset_freq = 0
    /\ delta_time = 0
    /\ delta_freq = 0
    /\ fan_out_arg = 0
    /\ hash_list = <<>>
    /\ anchor = 1
    /\ pc = "idle"
    /\ error = ""
    /\ emitted_by = <<>>
    /\ fingerprints_db = EmptyDict
    /\ track_id = ""
    /\ n_calls = 0
    /\ initial_db = EmptyDict
    /\ ingested = <<>>

----------------------------------------------------------------------------
(* Actions of the hash generator *)

\* make_combinatorial_hashes is entered with the six arguments of its
\* signature (helpers.py:67-68); lines 103-104 run.  fan_out_arg is the
\* caller's fan_out, which the call cannot carry.
Call ==
    /\ pc = "idle"
    /\ \E c \in Constellations, ot \in TimeOffsets, of \in Offsets,
          dt \in TimeDeltas, df \in Deltas, fo \in FanOutArgs :
        /\ peaks_times' = TimesOf(c)
        /\ peaks_frequencies' = FreqsOf(c)
        /\ offset_time' = ot
        /\ offset_freq' = of
        /\ delta_time' = dt
        /\ delta_freq' = df
        /\ fan_out_arg' = fo
    /\ hash_list' = <<>>
    /\ emitted_by' = <<>>
    /\ anchor' = 1
    /\ pc' = "loop"
    /\ UNCHANGED <<error, indexVars>>

\* make_fingerprint (fingerprinting.py:3-34) called with a target zone,
\* on a recording without landmarks: it passes seven positional arguments,
\* fan_out last, to a function of six parameters, and Python raises
\* TypeError before the body of make_combinatorial_hashes runs.
MakeFingerprint ==
    /\ pc = "idle"
    /\ \E ot \in TimeOffsets, of \in Offsets,
          dt \in TimeDeltas, df \in Deltas, fo \in FanOutArgs :
        LET r == make_fingerprint(peaks_times, peaks_frequencies,
                                  ot, of, dt, df, fo)
        IN  /\ offset_time' = ot
            /\ offset_freq' = of
            /\ delta_time' = dt
            /\ delta_freq' = df
            /\ fan_out_arg' = fo
            /\ hash_list' = r.value
            /\ error' = r.raised
            /\ pc' = IF r.raised = "" THEN "returned" ELSE "raised"
    /\ UNCHANGED <<peaks_times, peaks_frequencies, emitted_by, anchor,
                   indexVars>>

\* one iteration of the loop of helpers.py:105-106
AnchorStep ==
    /\ pc = "loop"
    /\ anchor <= Len(peaks_times)
    /\ LET new == pairs_from_anchor_point(peaks_times, peaks_frequencies,
                      peaks_times[anchor], peaks_frequencies[anchor],
                      offset_time, offset_freq, delta_time, delta_freq)
       IN  /\ hash_list' = hash_list \o new
           /\ emitted_by' = emitted_by \o [i \in 1..Len(new) |-> anchor]
    /\ anchor' = anchor + 1
    /\ UNCHANGED <<peaks_times, peaks_frequencies, offset_time, offset_freq,
                   delta_time, delta_freq, fan_out_arg, pc, error,
                   indexVars>>

\* helpers.py:108
Return ==
    /\ pc = "loop"
    /\ anchor > Len(peaks_times)
    /\ pc' = "returned"
    /\ UNCHANGED <<peaks_times, peaks_frequencies, offset_time, offset_freq,
                   delta_time, delta_freq, fan_out_arg, hash_list, anchor,
                   error, emitted_by, indexVars>>

NextHash == Call \/ MakeFingerprint \/ AnchorStep \/ Return

SpecHash == Init /\ [][NextHash]_vars

----------------------------------------------------------------------------
(* fingerprint_track_and_add_to_database, fingerprinting.py:37-46          *)
(*                                                                         *)
(* fingerprints_db is a dict of dicts.  A Python dict keeps its keys in    *)
(* the order of their first insertion, and assigning to a key it already   *)
(* holds replaces the value in place: a dict is modelled by the sequence   *)
(* of its items, the inner dict of a hash by its <<track_id, payload>>     *)
(* items, the outer dict by a function on the set of hashes it holds.      *)

\* d[k] = v on a dict held as its sequence of items (fingerprinting.py:44)
DictSet(d, k, v) ==
    IF \E i \in DOMAIN d : d[i][1] = k
    THEN [i \in DOMAIN d |-> IF d[i][1] = k THEN <<k, v>> ELSE d[i]]
    ELSE Append(d, <<k, v>>)

\* fingerprinting.py:43-46: the assignment of line 44 raises KeyError when
\* the database has no dict for h, and the except branch creates one
StoreEntry(db, h, tid, v) ==
    IF h \in DOMAIN db
    THEN [db EXCEPT ![h] = DictSet(db[h], tid, v)]
    ELSE [x \in DOMAIN db \cup {h} |-> IF x = h THEN <<<<tid, v>>>> ELSE db[x]]

\* fingerprinting.py:42-46: the loop over the <<hash, payload>> items of
\* fingerprints_dict, in the order of its keys
RECURSIVE AddToDatabase(_, _, _)
AddToDatabase(db, tid, items) ==
    IF items = <<>> THEN db
    ELSE AddToDatabase(StoreEntry(db, Head(items)[1], tid, Head(items)[2]),
                       tid, Tail(items))

\* fingerprinting.py:37-46, given the outcome r of make_fingerprint at line
\* 40: the database after the call and the exception that ends it ("" for
\* a normal return).  An exception of line 40 leaves the function at once.
\* A list has no .keys(): on the list that make_combinatorial_hashes
\* builds, line 42 raises AttributeError.  Only on a dict do lines 42-46 run.
fingerprint_track_and_add_to_database(db, tid, r) ==
    IF r.raised # "" THEN [db |-> db, raised |-> r.raised]
    ELSE IF r.type # "dict" THEN [db |-> db, raised |-> "AttributeError"]
    ELSE [db |-> AddToDatabase(db, tid, r.value), raised |-> ""]

\* the items stored under hash h.  The code has no function for it: this
\* is the reading of the dict that lines 44 and 46 write.
lookup(db, h) == IF h \in DOMAIN db THEN db[h] ELSE <<>>

(* Inputs of fingerprint_track_and_add_to_database *)

\* the dicts of one hash: the orders in which tracks can sit in it
InnerDicts ==
    {d \in UNION {[1..n -> Tracks \X Payloads] : n \in 1..Cardinality(Tracks)} :
        \A i, j \in DOMAIN d : i # j => d[i][1] # d[j][1]}

\* the databases a caller can hand to the first call.  No function of the
\* repository fills one; it is an argument like any other.
Databases == UNION {[hs -> InnerDicts] : hs \in SUBSET Hashes}

\* the constellation lines 24-28 produce for a track: the first n points of
\* a grid whose rows are DefaultDeltaFreq apart
TrackConstellation(n) ==
    [i \in 1..n |-> <<Seconds((i - 1) % DenseWidth),
                      ((i - 1) \div DenseWidth) * DefaultDeltaFreq>>]

TrackConstellations == {TrackConstellation(n) : n \in 0..MaxTrackPeaks}

\* History: the entries of a track, as <<track_id, hash, time>>: what the
\* hash generator yields for its constellation under the default target
\* zone, the hash being (anchor frequency, target frequency, time delta).
TrackEntries(tid, pt, pf) ==
    LET hl == make_combinatorial_hashes(pt, pf, Seconds(DefaultOffsetTime),
                  DefaultOffsetFreq, Seconds(DefaultDeltaTime),
                  DefaultDeltaFreq)
    IN  [i \in DOMAIN hl |-> <<tid, <<hl[i][2], hl[i][3], hl[i][4]>>, hl[i][1]>>]

\* the caller holds some database when the first call is made
InitIndex ==
    /\ peaks_times = <<>>
    /\ peaks_frequencies = <<>>
    /\ offset_time = 0
    /\ offset_freq = 0
    /\ delta_time = 0
    /\ delta_freq = 0
    /\ fan_out_arg = 0
    /\ hash_list = <<>>
    /\ anchor = 1
    /\ pc = "idle"
    /\ error = ""
    /\ emitted_by = <<>>
    /\ fingerprints_db \in Databases
    /\ initial_db = fingerprints_db
    /\ track_id = ""
    /\ n_calls = 0
    /\ ingested = <<>>

\* One call fingerprint_track_and_add_to_database(track_file, track_id,
\* fingerprints_db), whole: make_fingerprint(track_file) runs with its
\* default target zone on the constellation of the track (line 40), then
\* lines 42-46.
FingerprintTrackAndAdd ==
    /\ n_calls < MaxCalls
    /\ \E tid \in Tracks, c \in TrackConstellations :
        LET r == make_fingerprint(TimesOf(c), FreqsOf(c),
                     Seconds(DefaultOffsetTime), DefaultOffsetFreq,
                     Seconds(DefaultDeltaTime), DefaultDeltaFreq,
                     DefaultFanOut)
            out == fingerprint_track_and_add_to_database(fingerprints_db,
                                                         tid, r)
        IN  /\ track_id' = tid
            /\ peaks_times' = TimesOf(c)
            /\ peaks_frequencies' = FreqsOf(c)
            /\ fingerprints_db' = out.db
            /\ error' = out.raised
            /\ pc' = IF out.raised = "" THEN "returned" ELSE "raised"
            /\ ingested' = ingested \o TrackEntries(tid, TimesOf(c), FreqsOf(c))
    /\ offset_time' = Seconds(DefaultOffsetTime)
    /\ offset_freq' = DefaultOffsetFreq
    /\ delta_time' = Seconds(DefaultDeltaTime)
    /\ delta_freq' = DefaultDeltaFreq
    /\ fan_out_arg' = DefaultFanOut
    /\ n_calls' = n_calls + 1
    /\ UNCHANGED <<hash_list, anchor, emitted_by, initial_db>>

NextIndex == FingerprintTrackAndAdd

SpecIndex == InitIndex /\ [][NextIndex]_vars

----------------------------------------------------------------------------
(* Types *)

TypeOK ==
    /\ Len(peaks_times) = Len(peaks_frequencies)
    /\ Len(emitted_by) = Len(hash_list)
    /\ pc \in {"idle", "loop", "returned", "raised"}
    /\ anchor \in 1..(Len(peaks_times) + 1)
    /\ error \in {"", "TypeError", "AttributeError"}
    /\ DOMAIN fingerprints_db \subseteq Hashes
    /\ n_calls \in 0..MaxCalls

\* the stepwise loop builds what the whole function returns
ReturnsWholeFunction ==
    pc = "returned" =>
        hash_list = make_combinatorial_hashes(peaks_times, peaks_frequencies,
                        offset_time, offset_freq, delta_time, delta_freq)

----------------------------------------------------------------------------
(* The claims about the hash generator, checked under SpecHash.  The       *)
(* target rectangle is restated here from the claims, with its own         *)
(* comparisons, so that the model's InTimeZone and InFreqZone are what is  *)
(* being checked.  In the claims' formulas +, - and < on times are those   *)
(* of the real numbers, unless the float64 operation is named.             *)

\* landmark j lies strictly inside the target rectangle of anchor a
StrictlyInside(a, j) ==
    /\ peaks_times[a] + offset_time < peaks_times[j]
    /\ peaks_times[j] < peaks_times[a] + offset_time + delta_time
    /\ peaks_frequencies[a] + offset_freq < peaks_frequencies[j]
    /\ peaks_frequencies[j] < peaks_frequencies[a] + offset_freq + delta_freq

InZoneIdx(a) == {j \in DOMAIN peaks_times : StrictlyInside(a, j)}

\* the positions in hash_list of the entries anchor a emitted
EntriesIdx(a) == {i \in DOMAIN hash_list : emitted_by[i] = a}

\* the anchors whose scan is over
Processed == 1..(anchor - 1)

\* C1: every emitted entry has the hash key (A.frequency, T.frequency,
\* T.time - A.time) of its anchor A and of a landmark T (the difference
\* as float64 computes it), and its stored time is A.time, the time of the
\* anchor.
C1_PayloadIsAnchorTime ==
    \A i \in DOMAIN hash_list :
        LET a == emitted_by[i]
            e == hash_list[i]
        IN  /\ \E j \in DOMAIN peaks_times :
                  <<e[2], e[3], e[4]>> =
                      <<peaks_frequencies[a], peaks_frequencies[j],
                        F64Sub(peaks_times[j], peaks_times[a])>>
            /\ e[1] = peaks_times[a]

\* C2: each anchor contributes at most as many entries as the fan_out the
\* caller supplied (stated for the fan_out values that are valid).
C2_AtMostCallerFanOut ==
    fan_out_arg >= 0 =>
        \A a \in DOMAIN peaks_times : Cardinality(EntriesIdx(a)) <= fan_out_arg

\* C3: an entry of anchor A is only ever made from a landmark strictly
\* inside A's target rectangle (four strict comparisons), and a landmark on
\* an edge of the rectangle or outside it yields no entry for A.
C3_StrictTargetZone ==
    /\ \A i \in DOMAIN hash_list :
          LET a == emitted_by[i]
              e == hash_list[i]
          IN  /\ peaks_times[a] + offset_time < e[1]
              /\ e[1] < peaks_times[a] + offset_time + delta_time
              /\ peaks_frequencies[a] + offset_freq < e[3]
              /\ e[3] < peaks_frequencies[a] + offset_freq + delta_freq
    /\ \A a \in Processed, j \in DOMAIN peaks_times :
          ~StrictlyInside(a, j) =>
              ~\E i \in EntriesIdx(a) :
                    /\ hash_list[i][1] = peaks_times[j]
                    /\ hash_list[i][3] = peaks_frequencies[j]

\* C3's case: the generator has returned entries for an anchor that also
\* has a landmark exactly on the lower time edge and one exactly on the
\* upper frequency edge of its rectangle.
C3_Witness ==
    /\ pc = "returned"
    /\ \E a \in DOMAIN peaks_times :
          /\ EntriesIdx(a) # {}
          /\ \E j \in DOMAIN peaks_times :
                peaks_times[j] = peaks_times[a] + offset_time
          /\ \E j \in DOMAIN peaks_times :
                /\ peaks_frequencies[j] =
                       peaks_frequencies[a] + offset_freq + delta_freq
                /\ peaks_times[a] + offset_time < peaks_times[j]
                /\ peaks_times[j] < peaks_times[a] + offset_time + delta_time

\* the constellation with every landmark time shifted by c: t + c, as
\* float64 adds
ShiftTimes(pt, c) == [i \in DOMAIN pt |-> F64Add(pt[i], c)]

\* C6: shifting every landmark time by a constant c leaves the hash keys
\* (anchor frequency, target frequency, time delta) of the result as they
\* are, entry by entry, and moves every stored time by exactly c (the
\* float64 difference of the two stored times is c).
C6_TimeShiftInvariance ==
    pc = "returned" =>
        \A c \in {Seconds(m) : m \in (-MaxShift)..MaxShift} :
            LET s == make_combinatorial_hashes(ShiftTimes(peaks_times, c),
                         peaks_frequencies, offset_time, offset_freq,
                         delta_time, delta_freq)
            IN  /\ Len(s) = Len(hash_list)
                /\ \A i \in DOMAIN hash_list :
                      /\ <<s[i][2], s[i][3], s[i][4]>> =
                             <<hash_list[i][2], hash_list[i][3],
                               hash_list[i][4]>>
                      /\ F64Sub(s[i][1], hash_list[i][1]) = c

\* an invalid configuration, as the claim lists it
InvalidConfiguration ==
    fan_out_arg < 0 \/ delta_time = 0 \/ delta_freq = 0

\* C7: a call with an invalid configuration fails before any anchor is
\* processed: it produces no entry and never returns a normal result.
C7_InvalidConfigurationFailsFast ==
    (pc # "idle" /\ InvalidConfiguration) =>
        /\ pc # "returned"
        /\ anchor = 1
        /\ hash_list = <<>>

\* the k-th smallest element of a set of numbers
Nth(S, k) == CHOOSE j \in S : Cardinality({x \in S : x <= j}) = k

\* the in-zone landmarks of anchor a that are among its first fan_out
SelectedIdx(a) ==
    {j \in InZoneIdx(a) :
        Cardinality({x \in InZoneIdx(a) : x <= j}) <= fan_out}

\* C9: the entries of an anchor are made from exactly its first
\* min(k, fan_out) in-zone landmarks, in constellation order (fan_out being
\* the generator's own cap), and the output lists the anchors' entries
\* anchor after anchor, in constellation order.
C9_FirstFanOutInOrder ==
    /\ \A a \in Processed :
          /\ Cardinality(EntriesIdx(a)) = Cardinality(SelectedIdx(a))
          /\ \A m \in 1..Cardinality(EntriesIdx(a)) :
                LET e == hash_list[Nth(EntriesIdx(a), m)]
                    j == Nth(SelectedIdx(a), m)
                IN  /\ e[1] = peaks_times[j]
                    /\ e[3] = peaks_frequencies[j]
    /\ \A i, k \in DOMAIN emitted_by : i < k => emitted_by[i] <= emitted_by[k]
    /\ \A i \in DOMAIN emitted_by : emitted_by[i] \in Processed

\* C9's case: an anchor with more than fan_out in-zone landmarks, some of
\* them after a landmark outside the zone, has emitted exactly fan_out
\* entries, and a later anchor has emitted entries too.
C9_Witness ==
    /\ pc = "returned"
    /\ \E a \in DOMAIN peaks_times :
          /\ Cardinality(InZoneIdx(a)) > fan_out
          /\ Cardinality(EntriesIdx(a)) = fan_out
          /\ \E j \in DOMAIN peaks_times, k \in SelectedIdx(a) :
                j < k /\ j \notin InZoneIdx(a)
          /\ \E b \in DOMAIN peaks_times : b > a /\ EntriesIdx(b) # {}

----------------------------------------------------------------------------
(* The claims about the index, checked under SpecIndex.  An ingest of the  *)
(* claims is a call of fingerprint_track_and_add_to_database, its entries  *)
(* the hash entries of the track (TrackEntries).                           *)

\* the <<track_id, time>> occurrences ingested with hash h, in order
RECURSIVE OccurrencesOf(_, _)
OccurrencesOf(log, h) ==
    IF log = <<>> THEN <<>>
    ELSE LET e == Head(log)
         IN  (IF e[2] = h THEN <<<<e[1], e[3]>>>> ELSE <<>>)
                 \o OccurrencesOf(Tail(log), h)

\* every hash the database or an ingested entry can carry
AllHashes ==
    Hashes \cup DOMAIN fingerprints_db
           \cup {ingested[i][2] : i \in DOMAIN ingested}

\* C4: lookup(h) holds, for every hash h, after what the database held at
\* the start, one occurrence per ingested entry with key h, in ingestion
\* order.
C4_NoOverwrite ==
    \A h \in AllHashes :
        lookup(fingerprints_db, h) =
            lookup(initial_db, h) \o OccurrencesOf(ingested, h)

\* C5: every ingested (track_id, hash) has an occurrence of that track in
\* lookup(hash) ever after, and lookup is empty for a hash that was never
\* ingested.
C5_IngestedStaysPresent ==
    /\ \A i \in DOMAIN ingested :
          \E k \in DOMAIN lookup(fingerprints_db, ingested[i][2]) :
              lookup(fingerprints_db, ingested[i][2])[k][1] = ingested[i][1]
    /\ \A h \in AllHashes :
          (/\ h \notin DOMAIN initial_db
           /\ \A i \in DOMAIN ingested : ingested[i][2] # h)
              => lookup(fingerprints_db, h) = <<>>

=============================================================================
